---- MODULE Spec2Model ----
(***************************************************************************)
(* Model of the expense sharing application (src/expense_app.cpp).          *)
(*                                                                          *)
(* The state is that of the one ExpenseManager object main() constructs,    *)
(* together with the two text files it loads and saves.  Every public       *)
(* method of ExpenseManager is one action.  Values of type double are       *)
(* modelled as exact rationals <<numerator, denominator>>; a string that    *)
(* the code inspects character by character (email, phone) is a sequence    *)
(* of one-character strings, any other string is opaque.                    *)
(***************************************************************************)
EXTENDS Integers, Sequences, FiniteSets, TLC

(***************************************************************************)
(* Exact rational arithmetic for the values of type double.                 *)
(***************************************************************************)
Abs(n) == IF n < 0 THEN -n ELSE n

RECURSIVE GCD(_, _)
GCD(a, b) == IF b = 0 THEN a ELSE GCD(b, a % b)

\* The rational n/d (d # 0) in lowest terms with a positive denominator.
Rat(n, d) ==
    LET s == IF d < 0 THEN -1 ELSE 1
        g == GCD(Abs(n), Abs(d))
    IN  <<(s * n) \div g, (s * d) \div g>>

R(n) == <<n, 1>>
RAdd(x, y) == Rat(x[1] * y[2] + y[1] * x[2], x[2] * y[2])
RNeg(x) == <<-x[1], x[2]>>
RSub(x, y) == RAdd(x, RNeg(y))
RMul(x, y) == Rat(x[1] * y[1], x[2] * y[2])
RDiv(x, y) == Rat(x[1] * y[2], x[2] * y[1])
RLt(x, y) == x[1] * y[2] < y[1] * x[2]
RLe(x, y) == x[1] * y[2] <= y[1] * x[2]
RAbs(x) == <<Abs(x[1]), x[2]>>
Zero == R(0)

\* total = 0; for (double share : shares) total += share;
RECURSIVE RSum(_)
RSum(s) == IF s = <<>> THEN Zero ELSE RAdd(RSum(SubSeq(s, 1, Len(s) - 1)), s[Len(s)])

\* The value printed by `<< fixed << setprecision(2)`: the nearest multiple
\* of 1/100 (a tie goes to the even hundredth).
Round2(x) ==
    LET n == x[1] * 100
        q == n \div x[2]
        r == n % x[2]
        c == IF 2 * r > x[2] \/ (2 * r = x[2] /\ q % 2 = 1) THEN q + 1 ELSE q
    IN  Rat(c, 100)

(***************************************************************************)
(* Bounds of the model.                                                     *)
(***************************************************************************)
MaxUsers == 2
MaxNextExpenseId == 2
MaxLoaded == 2
MaxSplitParticipants == 2
MaxBalanceLedger == 2

(***************************************************************************)
(* Utils                                                                    *)
(***************************************************************************)
Digits == {"0", "1", "2", "3", "4", "5", "6", "7", "8", "9"}

isValidEmail(email) ==
    /\ \E i \in 1..Len(email) : email[i] = "@"
    /\ \E i \in 1..Len(email) : email[i] = "."

isValidPhone(phone) ==
    /\ Len(phone) >= 10
    /\ \A i \in 1..Len(phone) : phone[i] \in Digits

getCurrentDateTime == "2024-01-01 10:00:00"


(***************************************************************************)
(* User, ExpenseParticipant, Expense                                        *)
(***************************************************************************)
User(id, name, email, phone, password) ==
    [id |-> id, name |-> name, email |-> email, phone |-> phone, password |-> password]

NoUser == User(0, "", <<>>, <<>>, "")

ExpenseParticipant(userId, share) == [userId |-> userId, share |-> share]

Expense(id, desc, amt, method, creator) ==
    [id |-> id, description |-> desc, amount |-> amt, splitMethod |-> method,
     createdBy |-> creator, createdAt |-> getCurrentDateTime, participants |-> <<>>]

NoExpense ==
    [id |-> 0, description |-> "", amount |-> Zero, splitMethod |-> "EQUAL",
     createdBy |-> 0, createdAt |-> "", participants |-> <<>>]

splitMethodToString(method) ==
    IF method \in {"EQUAL", "EXACT", "PERCENTAGE"} THEN method ELSE "UNKNOWN"

stringToSplitMethod(str) ==
    IF str \in {"EQUAL", "EXACT", "PERCENTAGE"} THEN str ELSE "EQUAL"

(***************************************************************************)
(* Serialization.  A line of a data file is modelled by the record of its   *)
(* '|'-separated fields (no field holds a '|').  Utils::split drops an      *)
(* empty last field, so a line whose last field is empty has one part less. *)
(***************************************************************************)
User_serialize(u) == u

User_deserialize(row) ==
    LET parts == IF row.password = "" THEN 4 ELSE 5
    IN  IF parts >= 5
        THEN User(row.id, row.name, row.email, row.phone, row.password)
        ELSE NoUser

ExpenseParticipant_serialize(p) == [userId |-> p.userId, share |-> Round2(p.share)]

ExpenseParticipant_deserialize(f) == ExpenseParticipant(f.userId, f.share)

Expense_serialize(e) ==
    [id |-> e.id, description |-> e.description, amount |-> Round2(e.amount),
     splitMethod |-> splitMethodToString(e.splitMethod), createdBy |-> e.createdBy,
     createdAt |-> e.createdAt,
     participants |-> [i \in 1..Len(e.participants) |->
                          ExpenseParticipant_serialize(e.participants[i])]]

Expense_deserialize(row) ==
    LET parts == IF row.participants = <<>> THEN 6 ELSE 7
    IN  IF parts >= 7
        THEN [id |-> row.id, description |-> row.description, amount |-> row.amount,
              splitMethod |-> stringToSplitMethod(row.splitMethod),
              createdBy |-> row.createdBy, createdAt |-> row.createdAt,
              participants |-> [i \in 1..Len(row.participants) |->
                                   ExpenseParticipant_deserialize(row.participants[i])]]
        ELSE NoExpense

(***************************************************************************)
(* State                                                                    *)
(***************************************************************************)
VARIABLES
    users,          \* vector<User> users
    expenses,       \* vector<Expense> expenses (the ledger)
    currentUser,    \* User* currentUser: 0 is nullptr, i > 0 points at users[i],
                    \* Dangling points at storage the vector has released
    nextUserId,
    nextExpenseId,
    usersFile,      \* the lines of data/users.txt
    expensesFile,   \* the lines of data/expenses.txt
    balance,        \* the local map<int, double> balances of displayBalance, as the
                    \* call made last left it: empty when that call declared none
    call,           \* the method called last and, where a specification records
                    \* them, the arguments it was called with
    result          \* what that call returned and the error it reported

vars ==
    <<users, expenses, currentUser, nextUserId, nextExpenseId, usersFile, expensesFile,
      balance, call, result>>

EmptyMap == [k \in {} |-> Zero]

Ok == [ret |-> TRUE, err |-> "", info |-> <<>>]
Fail(err, info) == [ret |-> FALSE, err |-> err, info |-> info]

\* currentUser->getId()
currentUserId == users[currentUser].id

(***************************************************************************)
(* loadData, saveData                                                       *)
(***************************************************************************)
\* loadRows taking the identity after the last line read, not after the
\* largest.
RECURSIVE loadRows_LastId(_, _)
loadRows_LastId(objs, acc) ==
    IF objs = <<>> THEN acc
    ELSE LET o == objs[1]
             kept == IF o.id > 0 THEN Append(acc.list, o) ELSE acc.list
             next == IF o.id > 0 THEN o.id + 1 ELSE acc.next
         IN  loadRows_LastId(Tail(objs), [list |-> kept, next |-> next])

\* loadRows with `>` for the `>=` of lines 725 and 743.
RECURSIVE loadRows_Greater(_, _)
loadRows_Greater(objs, acc) ==
    IF objs = <<>> THEN acc
    ELSE LET o == objs[1]
             kept == IF o.id > 0 THEN Append(acc.list, o) ELSE acc.list
             next == IF o.id > 0 /\ o.id > acc.next THEN o.id + 1 ELSE acc.next
         IN  loadRows_Greater(Tail(objs), [list |-> kept, next |-> next])

\* The loop of loadData over the lines of one file: the loaded objects and
\* the next identity, starting from `acc`.
RECURSIVE loadRows(_, _)
loadRows(objs, acc) ==
    IF objs = <<>> THEN acc
    ELSE LET o == objs[1]
             kept == IF o.id > 0 THEN Append(acc.list, o) ELSE acc.list
             next == IF o.id > 0 /\ o.id >= acc.next THEN o.id + 1 ELSE acc.next
         IN  loadRows(Tail(objs), [list |-> kept, next |-> next])

loadUsers(file) ==
    loadRows([i \in 1..Len(file) |-> User_deserialize(file[i])], [list |-> <<>>, next |-> 1])

loadExpenses(file) ==
    loadRows([i \in 1..Len(file) |-> Expense_deserialize(file[i])], [list |-> <<>>, next |-> 1])

saveUsers(us) == [i \in 1..Len(us) |-> User_serialize(us[i])]

saveExpenses(es) == [i \in 1..Len(es) |-> Expense_serialize(es[i])]

\* ExpenseManager(): the state main() starts from, given the two data files.
Construct(store) ==
    /\ users = loadUsers(store.users).list
    /\ nextUserId = loadUsers(store.users).next
    /\ expenses = loadExpenses(store.expenses).list
    /\ nextExpenseId = loadExpenses(store.expenses).next
    /\ currentUser = 0
    /\ usersFile = store.users
    /\ expensesFile = store.expenses
    /\ balance = EmptyMap
    /\ call = [op |-> "ExpenseManager", args |-> <<>>]
    /\ result = Ok


\* saveData(), as the tail of a method that has set users' and expenses'.
saveData ==
    /\ usersFile' = saveUsers(users')
    /\ expensesFile' = saveExpenses(expenses')

(***************************************************************************)
(* User operations                                                          *)
(***************************************************************************)
\* A User* that points into storage the users vector has released.
Dangling == 0 - 1

\* users.push_back (line 378) moves the users to new storage when the vector
\* is full, and then a pointer into the old storage dangles; whether the
\* vector is full is left open.  nullptr stays nullptr.
afterPushBack(pointer) == IF pointer = 0 THEN {0} ELSE {pointer, Dangling}

\* registerUser without the loop of lines 369-375 over the registered emails.
registerUser_NoDuplicateCheck(name, email, phone, password) ==
    /\ UNCHANGED <<expenses, nextExpenseId>>
    /\ balance' = EmptyMap
    /\ IF ~isValidEmail(email) THEN
            /\ result' = Fail("InvalidEmail", <<>>)
            /\ UNCHANGED <<users, currentUser, nextUserId, usersFile, expensesFile>>
       ELSE IF ~isValidPhone(phone) THEN
            /\ result' = Fail("InvalidPhone", <<>>)
            /\ UNCHANGED <<users, currentUser, nextUserId, usersFile, expensesFile>>
       ELSE /\ users' = Append(users, User(nextUserId, name, email, phone, password))
            /\ currentUser' \in afterPushBack(currentUser)
            /\ nextUserId' = nextUserId + 1
            /\ saveData
            /\ result' = Ok

\* registerUser taking the identity (nextUserId++, line 377) before the loop
\* over the registered emails.
registerUser_IdBeforeDuplicateCheck(name, email, phone, password) ==
    /\ UNCHANGED <<expenses, nextExpenseId>>
    /\ balance' = EmptyMap
    /\ IF ~isValidEmail(email) THEN
            /\ result' = Fail("InvalidEmail", <<>>)
            /\ UNCHANGED <<users, currentUser, nextUserId, usersFile, expensesFile>>
       ELSE IF ~isValidPhone(phone) THEN
            /\ result' = Fail("InvalidPhone", <<>>)
            /\ UNCHANGED <<users, currentUser, nextUserId, usersFile, expensesFile>>
       ELSE IF \E i \in 1..Len(users) : users[i].email = email THEN
            /\ result' = Fail("DuplicateEmail", <<>>)
            /\ nextUserId' = nextUserId + 1
            /\ UNCHANGED <<users, currentUser, usersFile, expensesFile>>
       ELSE /\ users' = Append(users, User(nextUserId, name, email, phone, password))
            /\ currentUser' \in afterPushBack(currentUser)
            /\ nextUserId' = nextUserId + 1
            /\ saveData
            /\ result' = Ok

registerUser(name, email, phone, password) ==
    /\ UNCHANGED <<expenses, nextExpenseId>>
    /\ balance' = EmptyMap
    /\ IF ~isValidEmail(email) THEN
            /\ result' = Fail("InvalidEmail", <<>>)
            /\ UNCHANGED <<users, currentUser, nextUserId, usersFile, expensesFile>>
       ELSE IF ~isValidPhone(phone) THEN
            /\ result' = Fail("InvalidPhone", <<>>)
            /\ UNCHANGED <<users, currentUser, nextUserId, usersFile, expensesFile>>
       ELSE IF \E i \in 1..Len(users) : users[i].email = email THEN
            /\ result' = Fail("DuplicateEmail", <<>>)
            /\ UNCHANGED <<users, currentUser, nextUserId, usersFile, expensesFile>>
       ELSE /\ users' = Append(users, User(nextUserId, name, email, phone, password))
            /\ currentUser' \in afterPushBack(currentUser)
            /\ nextUserId' = nextUserId + 1
            /\ saveData
            /\ result' = Ok

\* The first user, in registry order, with this email and password (0: none).
loginMatch(email, password) ==
    LET hits == {i \in 1..Len(users) :
                    users[i].email = email /\ users[i].password = password}
    IN  IF hits = {} THEN 0 ELSE CHOOSE i \in hits : \A j \in hits : i <= j

login(email, password) ==
    /\ IF loginMatch(email, password) # 0 THEN
            /\ currentUser' = loginMatch(email, password)
            /\ result' = Ok
       ELSE /\ result' = Fail("InvalidCredentials", <<>>)
            /\ UNCHANGED currentUser
    /\ UNCHANGED <<users, expenses, nextUserId, nextExpenseId, usersFile, expensesFile>>
    /\ balance' = EmptyMap

logout ==
    /\ result' = Ok
    /\ IF currentUser # 0 THEN currentUser' = 0 ELSE UNCHANGED currentUser
    /\ UNCHANGED <<users, expenses, nextUserId, nextExpenseId, usersFile, expensesFile>>
    /\ balance' = EmptyMap

(***************************************************************************)
(* Expense operations                                                       *)
(***************************************************************************)
\* withCreator without the push_back of line 450.
withCreator_NoAppend(participantIds, creator) == participantIds

\* withCreator putting an absent creator first.
withCreator_Prepend(participantIds, creator) ==
    IF \E i \in 1..Len(participantIds) : participantIds[i] = creator
    THEN participantIds
    ELSE <<creator>> \o participantIds

\* Lines 441-451: the participant ids with the creator appended when absent.
withCreator(participantIds, creator) ==
    IF \E i \in 1..Len(participantIds) : participantIds[i] = creator
    THEN participantIds
    ELSE Append(participantIds, creator)

\* Lines 453-466: the positions of the ids that no registered user has.
notFound(participantIds) ==
    {i \in 1..Len(participantIds) :
        ~\E u \in 1..Len(users) : users[u].id = participantIds[i]}

\* equalShares dividing by the number of distinct participants.
equalShares_Distinct(amount, participantIds) ==
    LET n == Cardinality({participantIds[i] : i \in 1..Len(participantIds)})
    IN  [i \in 1..Len(participantIds) |->
            ExpenseParticipant(participantIds[i], RDiv(amount, R(n)))]

\* Lines 472-477
equalShares(amount, participantIds) ==
    LET shareAmount == RDiv(amount, R(Len(participantIds)))
    IN  [i \in 1..Len(participantIds) |-> ExpenseParticipant(participantIds[i], shareAmount)]

\* Lines 495-497
exactShares(participantIds, shares) ==
    [i \in 1..Len(participantIds) |-> ExpenseParticipant(participantIds[i], shares[i])]

\* percentageShares without the division by 100.
percentageShares_Unscaled(amount, participantIds, shares) ==
    [i \in 1..Len(participantIds) |->
        ExpenseParticipant(participantIds[i], RMul(amount, shares[i]))]

\* Lines 516-519
percentageShares(amount, participantIds, shares) ==
    [i \in 1..Len(participantIds) |->
        ExpenseParticipant(participantIds[i], RMul(amount, RDiv(shares[i], R(100))))]

\* abs(total - amount) > 0.01
Tolerance == Rat(1, 100)
\* sumMismatch with `>=` for `>`.
sumMismatch_Inclusive(total, expected) == RLe(Tolerance, RAbs(RSub(total, expected)))

\* sumMismatch with a tolerance of 0.1.
sumMismatch_Loose(total, expected) == RLt(Rat(1, 10), RAbs(RSub(total, expected)))

sumMismatch(total, expected) == RLt(Tolerance, RAbs(RSub(total, expected)))

\* The outcome of the share calculation (lines 472-520): the error it stops
\* with ("" when none) and the participants it gives the new expense.
calculateShares(amount, method, participantIds, shares) ==
    IF method = "EQUAL" THEN
        [err |-> "", participants |-> equalShares(amount, participantIds)]
    ELSE IF method = "EXACT" THEN
        IF Len(shares) # Len(participantIds) THEN
            [err |-> "ShareCountMismatch", participants |-> <<>>]
        ELSE IF sumMismatch(RSum(shares), amount) THEN
            [err |-> "ShareSumMismatch", participants |-> <<>>]
        ELSE [err |-> "", participants |-> exactShares(participantIds, shares)]
    ELSE IF method = "PERCENTAGE" THEN
        IF Len(shares) # Len(participantIds) THEN
            [err |-> "ShareCountMismatch", participants |-> <<>>]
        ELSE IF sumMismatch(RSum(shares), R(100)) THEN
            [err |-> "PercentageSumMismatch", participants |-> <<>>]
        ELSE [err |-> "", participants |-> percentageShares(amount, participantIds, shares)]
    ELSE [err |-> "", participants |-> <<>>]

\* A `return false` of addExpense: nothing is stored; `next` is the value
\* nextExpenseId has by then.
rejected(err, info, next) ==
    [result |-> Fail(err, info), expenses |-> expenses, nextExpenseId |-> next,
     saved |-> FALSE]

\* stored putting the new expense first in the ledger.
stored_Prepend(newExpense, next) ==
    [result |-> [ret |-> TRUE, err |-> "", info |-> <<newExpense.id>>],
     expenses |-> <<newExpense>> \o expenses, nextExpenseId |-> next, saved |-> TRUE]

\* Lines 522-526: push_back, saveData, return true.
stored(newExpense, next) ==
    [result |-> [ret |-> TRUE, err |-> "", info |-> <<newExpense.id>>],
     expenses |-> Append(expenses, newExpense), nextExpenseId |-> next, saved |-> TRUE]

\* addExpense with the loop of lines 453-466 moved below the share
\* calculation, so that a share error is reported before an unknown id.
addExpenseOutcome_SplitBeforeLookup(description, amount, method, participantIds, shares) ==
    IF currentUser = 0 THEN rejected("NotLoggedIn", <<>>, nextExpenseId)
    ELSE IF RLe(amount, Zero) THEN rejected("InvalidAmount", <<>>, nextExpenseId)
    ELSE LET ids == withCreator(participantIds, currentUserId)
             missing == notFound(ids)
             first == CHOOSE i \in missing : \A j \in missing : i <= j
             newExpense == Expense(nextExpenseId, description, amount, method, currentUserId)
             next == nextExpenseId + 1
             calc == calculateShares(amount, method, ids, shares)
         IN  IF calc.err # "" THEN rejected(calc.err, <<>>, next)
             ELSE IF missing # {}
                  THEN rejected("UnknownParticipant", <<ids[first]>>, nextExpenseId)
             ELSE stored([newExpense EXCEPT !.participants = calc.participants], next)

\* addExpense with the push_back of line 522 moved up to line 469, so that
\* a share error returns after the expense is in the ledger.
addExpenseOutcome_PushFirst(description, amount, method, participantIds, shares) ==
    IF currentUser = 0 THEN rejected("NotLoggedIn", <<>>, nextExpenseId)
    ELSE IF RLe(amount, Zero) THEN rejected("InvalidAmount", <<>>, nextExpenseId)
    ELSE LET ids == withCreator(participantIds, currentUserId)
             missing == notFound(ids)
             first == CHOOSE i \in missing : \A j \in missing : i <= j
             newExpense == Expense(nextExpenseId, description, amount, method, currentUserId)
             next == nextExpenseId + 1
             calc == calculateShares(amount, method, ids, shares)
         IN  IF missing # {} THEN rejected("UnknownParticipant", <<ids[first]>>, nextExpenseId)
             ELSE IF calc.err # ""
                  THEN [rejected(calc.err, <<>>, next)
                            EXCEPT !.expenses = Append(expenses, newExpense)]
             ELSE stored([newExpense EXCEPT !.participants = calc.participants], next)

\* What a call of addExpense does in the current state.
addExpenseOutcome(description, amount, method, participantIds, shares) ==
    IF currentUser = 0 THEN rejected("NotLoggedIn", <<>>, nextExpenseId)
    ELSE IF RLe(amount, Zero) THEN rejected("InvalidAmount", <<>>, nextExpenseId)
    ELSE LET ids == withCreator(participantIds, currentUserId)
             missing == notFound(ids)
             first == CHOOSE i \in missing : \A j \in missing : i <= j
             \* Expense newExpense(nextExpenseId++, ...)
             newExpense == Expense(nextExpenseId, description, amount, method, currentUserId)
             next == nextExpenseId + 1
             calc == calculateShares(amount, method, ids, shares)
         IN  IF missing # {} THEN rejected("UnknownParticipant", <<ids[first]>>, nextExpenseId)
             ELSE IF calc.err # "" THEN rejected(calc.err, <<>>, next)
             ELSE stored([newExpense EXCEPT !.participants = calc.participants], next)

addExpense(description, amount, method, participantIds, shares) ==
    LET out == addExpenseOutcome(description, amount, method, participantIds, shares)
    IN  /\ result' = out.result
        /\ expenses' = out.expenses
        /\ nextExpenseId' = out.nextExpenseId
        /\ UNCHANGED <<users, currentUser, nextUserId>>
        /\ balance' = EmptyMap
        /\ IF out.saved THEN saveData ELSE UNCHANGED <<usersFile, expensesFile>>

(***************************************************************************)
(* Balance                                                                  *)
(***************************************************************************)
\* balance[key] += amount on a map<int, double>: a missing key starts at 0.
mapAdd(m, key, amount) ==
    [k \in DOMAIN m \cup {key} |->
        IF k = key THEN RAdd(IF key \in DOMAIN m THEN m[key] ELSE Zero, amount) ELSE m[k]]

\* balanceStep with `+=` for the `-=` of line 603.
balanceStep_Added(m, focal, payer, participant) ==
    IF payer = focal /\ participant.userId # focal
    THEN mapAdd(m, participant.userId, participant.share)
    ELSE IF participant.userId = focal /\ payer # focal
    THEN mapAdd(m, payer, participant.share)
    ELSE m

\* balanceStep without the `payer != currentUser->getId()` of line 602.
balanceStep_OwnShare(m, focal, payer, participant) ==
    IF payer = focal /\ participant.userId # focal
    THEN mapAdd(m, participant.userId, participant.share)
    ELSE IF participant.userId = focal
    THEN mapAdd(m, payer, RNeg(participant.share))
    ELSE m

\* Lines 593-605 for one participant of an expense paid by `payer`.
balanceStep(m, focal, payer, participant) ==
    IF payer = focal /\ participant.userId # focal
    THEN mapAdd(m, participant.userId, participant.share)
    ELSE IF participant.userId = focal /\ payer # focal
    THEN mapAdd(m, payer, RNeg(participant.share))
    ELSE m

\* The inner loop (lines 593-605) over participants[1..n] of one expense.
RECURSIVE balanceOfExpense(_, _, _, _)
balanceOfExpense(m, focal, expense, n) ==
    IF n = 0 THEN m
    ELSE balanceStep(balanceOfExpense(m, focal, expense, n - 1), focal,
                     expense.createdBy, expense.participants[n])

\* The outer loop (lines 590-606) over ledger[1..n].
RECURSIVE computeBalance(_, _, _)
computeBalance(ledger, focal, n) ==
    IF n = 0 THEN EmptyMap
    ELSE balanceOfExpense(computeBalance(ledger, focal, n - 1), focal, ledger[n],
                          Len(ledger[n].participants))

displayBalance ==
    /\ IF currentUser = 0 THEN
            /\ result' = Fail("NotLoggedIn", <<>>)
            /\ balance' = EmptyMap
       ELSE /\ result' = Ok
            /\ balance' = computeBalance(expenses, currentUserId, Len(expenses))
    /\ UNCHANGED <<users, expenses, currentUser, nextUserId, nextExpenseId, usersFile,
                   expensesFile>>


(***************************************************************************)
(* The views, the export and the exit.  What a view prints, and what the    *)
(* export writes to its file, is the info of the result.                    *)
(***************************************************************************)
participates(expense, id) ==
    \E i \in 1..Len(expense.participants) : expense.participants[i].userId = id

\* The name printed for a user id (lines 273-279, 676-682, 685-691).
userName(id) ==
    LET hits == {i \in 1..Len(users) : users[i].id = id}
    IN  IF hits = {} THEN "Unknown" ELSE users[CHOOSE i \in hits : \A j \in hits : i <= j].name

idsOf(ledger) == [k \in 1..Len(ledger) |-> ledger[k].id]

readOnly ==
    /\ balance' = EmptyMap
    /\ UNCHANGED <<users, expenses, currentUser, nextUserId, nextExpenseId, usersFile,
                   expensesFile>>

displayAllUsers ==
    /\ result' = [ret |-> TRUE, err |-> "", info |-> [k \in 1..Len(users) |-> users[k].id]]
    /\ readOnly

displayUserExpenses ==
    /\ IF currentUser = 0 THEN result' = Fail("NotLoggedIn", <<>>)
       ELSE result' = [ret |-> TRUE, err |-> "",
                       info |-> idsOf(SelectSeq(expenses,
                                    LAMBDA e : participates(e, currentUserId)))]
    /\ readOnly

displayAllExpenses ==
    /\ IF currentUser = 0 THEN result' = Fail("NotLoggedIn", <<>>)
       ELSE result' = [ret |-> TRUE, err |-> "", info |-> idsOf(expenses)]
    /\ readOnly

\* The lines the export writes for one expense: one per participant.
csvLines(e) ==
    [i \in 1..Len(e.participants) |->
        <<e.id, e.description, Round2(e.amount), e.createdBy, userName(e.createdBy),
          e.participants[i].userId, userName(e.participants[i].userId),
          Round2(e.participants[i].share), e.createdAt>>]

RECURSIVE csvOf(_, _)
csvOf(ledger, focal) ==
    IF ledger = <<>> THEN <<>>
    ELSE LET e == ledger[1]
             isRelevant == participates(e, focal) \/ e.createdBy = focal
         IN  (IF isRelevant THEN csvLines(e) ELSE <<>>) \o csvOf(Tail(ledger), focal)

\* exportBalanceToCSV(filename); `opened` is file.is_open() of line 650.
exportBalanceToCSV(opened) ==
    /\ IF currentUser = 0 THEN result' = Fail("NotLoggedIn", <<>>)
       ELSE IF ~opened THEN result' = Fail("CannotCreateFile", <<>>)
       ELSE result' = [ret |-> TRUE, err |-> "", info |-> csvOf(expenses, currentUserId)]
    /\ readOnly

\* ~ExpenseManager(): saveData() as main() returns (lines 348-350).
destroy ==
    /\ usersFile' = saveUsers(users)
    /\ expensesFile' = saveExpenses(expenses)
    /\ result' = Ok
    /\ balance' = EmptyMap
    /\ UNCHANGED <<users, expenses, currentUser, nextUserId, nextExpenseId>>

\* ExpenseManager() of the next run of the program: loadData() on the files
\* the last run left.
construct ==
    /\ users' = loadUsers(usersFile).list
    /\ nextUserId' = loadUsers(usersFile).next
    /\ expenses' = loadExpenses(expensesFile).list
    /\ nextExpenseId' = loadExpenses(expensesFile).next
    /\ currentUser' = 0
    /\ balance' = EmptyMap
    /\ result' = Ok
    /\ UNCHANGED <<usersFile, expensesFile>>

(***************************************************************************)
(* Inputs                                                                   *)
(***************************************************************************)
\* Every sequence over S of length at most n.
RECURSIVE SeqsUpTo(_, _)
SeqsUpTo(S, n) ==
    IF n = 0 THEN {<<>>}
    ELSE LET shorter == SeqsUpTo(S, n - 1)
         IN  shorter \cup {Append(s, x) : s \in {t \in shorter : Len(t) = n - 1}, x \in S}

Email(k) == <<"u", CHOOSE d \in Digits : d = ToString(k), "@", "x", ".", "y">>
BadEmail == <<"u", "1", "x", ".", "y">>
GoodPhone == <<"5", "5", "5", "0", "1", "0", "0", "1", "2", "3">>
BadPhone == <<"5", "5", "5", "-", "0", "1", "0", "0", "1", "2">>
Passwords == {"pw"}
BadPassword == "nope"
Methods == {"EQUAL", "EXACT", "PERCENTAGE"}

\* The data files main() may start from.
NoStore == [users |-> <<>>, expenses |-> <<>>]

StoredUsers(n) == [i \in 1..n |-> User_serialize(User(i, "name", Email(i), GoodPhone, "pw"))]

(***************************************************************************)
(* The session: the methods as a caller may invoke them.  registerUser is   *)
(* invoked as main() invokes it, from the menu shown while nobody is logged *)
(* in (lines 957-965); the other methods test currentUser themselves and    *)
(* are invoked in every state.  addExpense is called with no participant or *)
(* with one (any user, or an id nobody has), and with no share, two shares  *)
(* that add up to the amount or two that do not.                            *)
(***************************************************************************)
Called(op) == call' = [op |-> op, args |-> <<>>]

Amounts == {R(0), R(100)}
ParticipantLists == {<<>>} \cup {<<k>> : k \in 1..MaxUsers + 1}
ShareLists == {<<>>, <<R(60), R(40)>>, <<R(60), R(30)>>}

Register ==
    /\ currentUser = 0
    /\ Len(users) < MaxUsers
    /\ \E email \in {Email(Len(users) + 1), Email(1), BadEmail},
          phone \in {GoodPhone, BadPhone}, password \in Passwords :
            registerUser("name", email, phone, password)
    /\ Called("registerUser")

Login ==
    /\ \E k \in 1..Len(users) + 1, password \in Passwords \cup {BadPassword} :
            login(Email(k), password)
    /\ Called("login")

Logout == logout /\ Called("logout")

\* addExpense, while the next identity is at most maxId.
AddExpenseUpTo(maxId) ==
    /\ nextExpenseId <= maxId
    /\ \E amount \in Amounts, method \in Methods, participantIds \in ParticipantLists,
          shares \in ShareLists :
            addExpense("lunch", amount, method, participantIds, shares)
    /\ Called("addExpense")

AddExpense == AddExpenseUpTo(MaxNextExpenseId)

DisplayBalance == displayBalance /\ Called("displayBalance")

\* main() started without data files.
Init == Construct(NoStore)

Next == Register \/ Login \/ Logout \/ AddExpense \/ DisplayBalance

Spec == Init /\ [][Next]_vars


(***************************************************************************)
(* main() started on data files written earlier: MaxUsers users and a       *)
(* ledger file of up to MaxLoaded rows that carry distinct identities of    *)
(* 1..MaxLoaded, in any order.                                              *)
(***************************************************************************)
StoredExpense(id, creator) ==
    Expense_serialize(
        [Expense(id, "rent", R(100), "EQUAL", creator)
            EXCEPT !.participants = <<ExpenseParticipant(creator, R(100))>>])

DistinctIds(rows) ==
    \A i, j \in 1..Len(rows) : i # j => rows[i].id # rows[j].id

LoadedStores ==
    {[users |-> StoredUsers(MaxUsers), expenses |-> rows] :
        rows \in {r \in SeqsUpTo({StoredExpense(id, 1) : id \in 1..MaxLoaded}, MaxLoaded) :
                    r # <<>> /\ DistinctIds(r)}}

InitLoaded == \E store \in LoadedStores : Construct(store)

LoadedAddExpense == AddExpenseUpTo(MaxLoaded + 1)

NextLoaded == Login \/ Logout \/ LoadedAddExpense \/ DisplayBalance

SpecLoaded == InitLoaded /\ [][NextLoaded]_vars


(***************************************************************************)
(* The split calculation: a store of MaxUsers users and no expense, up to   *)
(* the first call of addExpense that reaches the calculation.  The menus    *)
(* are those of main(): login while nobody is logged in (lines 957-968),    *)
(* addExpense and logout while somebody is (lines 983-1016).  addExpense    *)
(* is called with every combination of amount, method, registered           *)
(* participant ids and weights of the sets below, and this specification    *)
(* records the arguments of the call.                                       *)
(***************************************************************************)
SplitAmounts == {R(100), R(1000)}
Weights == {R(20), R(40), R(60), Rat(8001, 200), Rat(4001, 100), R(960)}

SplitStore == [users |-> StoredUsers(MaxUsers), expenses |-> <<>>]

InitSplit == Construct(SplitStore)

SplitLogin == currentUser = 0 /\ Login

SplitLogout == currentUser # 0 /\ Logout

SplitAddExpense ==
    /\ currentUser # 0
    /\ nextExpenseId = 1
    /\ \E amount \in SplitAmounts, method \in Methods,
          participantIds \in SeqsUpTo(1..MaxUsers, MaxSplitParticipants),
          shares \in SeqsUpTo(Weights, MaxSplitParticipants + 1) :
            /\ addExpense("dinner", amount, method, participantIds, shares)
            /\ call' = [op |-> "addExpense",
                        args |-> <<"dinner", amount, method, participantIds, shares>>]

NextSplit == SplitLogin \/ SplitLogout \/ SplitAddExpense

SpecSplit == InitSplit /\ [][NextSplit]_vars

(***************************************************************************)
(* The balance: main() started on three users and a ledger file of up to    *)
(* MaxBalanceLedger expenses, each paid by one of the users and split over  *)
(* one or two of them (any of them twice, the payer in or out), the share   *)
(* at position i being PositionShare(i).  The menus are those of main():    *)
(* login while nobody is logged in, displayBalance and logout while         *)
(* somebody is (lines 997-1016).                                            *)
(***************************************************************************)
BalanceUserIds == 1..3

PositionShare(i) == R(15 * i - 5)

BalanceExpense(creator, ids) ==
    Expense_serialize(
        [Expense(0, "trip", RSum([i \in 1..Len(ids) |-> PositionShare(i)]), "EXACT", creator)
            EXCEPT !.participants =
                [i \in 1..Len(ids) |-> ExpenseParticipant(ids[i], PositionShare(i))]])

BalancePool ==
    {BalanceExpense(creator, ids) :
        creator \in BalanceUserIds, ids \in SeqsUpTo(BalanceUserIds, 2) \ {<<>>}}

BalanceStores ==
    {[users |-> StoredUsers(Cardinality(BalanceUserIds)),
      expenses |-> [k \in 1..Len(rows) |-> [rows[k] EXCEPT !.id = k]]] :
        rows \in SeqsUpTo(BalancePool, MaxBalanceLedger)}

InitBalance == \E store \in BalanceStores : Construct(store)

BalanceLogin ==
    /\ currentUser = 0
    /\ \E k \in 1..Len(users) : login(Email(k), "pw")
    /\ Called("login")

BalanceLogout == currentUser # 0 /\ Logout

BalanceDisplay == currentUser # 0 /\ DisplayBalance

NextBalance == BalanceLogin \/ BalanceLogout \/ BalanceDisplay

SpecBalance == InitBalance /\ [][NextBalance]_vars

(***************************************************************************)
(* Registration: main() started without data files, registerUser called     *)
(* with every combination of the emails, phones and passwords below (two    *)
(* of the emails differ in the case of one letter; a password may be left   *)
(* empty, as getline of line 833 allows).  This specification records the   *)
(* arguments of each call.                                                  *)
(***************************************************************************)
UpperEmail(k) == <<"U", CHOOSE d \in Digits : d = ToString(k), "@", "x", ".", "y">>

RegisterEmails == {Email(1), UpperEmail(1), Email(2), BadEmail}
RegisterPasswords == {"pw", ""}

RegisterCall ==
    /\ currentUser = 0
    /\ Len(users) < MaxUsers
    /\ \E email \in RegisterEmails, phone \in {GoodPhone, BadPhone},
          password \in RegisterPasswords :
            /\ registerUser("name", email, phone, password)
            /\ call' = [op |-> "registerUser", args |-> <<"name", email, phone, password>>]

NextRegister == RegisterCall

SpecRegister == Init /\ [][NextRegister]_vars

(***************************************************************************)
(* The program: the loop of main().  While the program runs and nobody is   *)
(* logged in, the menu offers registration, login, the list of users and    *)
(* the exit (lines 957-981); while somebody is, it offers addExpense, the   *)
(* three views, the export, logout and the exit (lines 982-1021).  The exit *)
(* runs the destructor, which saves; the program is then started again on   *)
(* the files it left.                                                       *)
(***************************************************************************)
running == call.op # "exit"

\* MainRegister offered by both menus.
MainRegister_AnyMenu ==
    /\ running
    /\ Len(users) < MaxUsers
    /\ \E email \in {Email(Len(users) + 1), Email(1), BadEmail},
          phone \in {GoodPhone, BadPhone}, password \in Passwords :
            registerUser("name", email, phone, password)
    /\ Called("registerUser")

MainRegister ==
    /\ running /\ currentUser = 0
    /\ Len(users) < MaxUsers
    /\ \E email \in {Email(Len(users) + 1), Email(1), BadEmail},
          phone \in {GoodPhone, BadPhone}, password \in Passwords :
            registerUser("name", email, phone, password)
    /\ Called("registerUser")

MainLogin ==
    /\ running /\ currentUser = 0
    /\ \E k \in 1..Len(users) + 1, password \in Passwords \cup {BadPassword} :
            login(Email(k), password)
    /\ Called("login")

MainViewUsers == running /\ currentUser = 0 /\ displayAllUsers /\ Called("displayAllUsers")

MainAddExpense ==
    /\ running /\ currentUser # 0
    /\ nextExpenseId <= MaxNextExpenseId
    /\ \E amount \in Amounts, method \in Methods, participantIds \in ParticipantLists,
          shares \in ShareLists :
            addExpense("lunch", amount, method, participantIds, shares)
    /\ Called("addExpense")

MainViewMyExpenses ==
    running /\ currentUser # 0 /\ displayUserExpenses /\ Called("displayUserExpenses")

MainViewAllExpenses ==
    running /\ currentUser # 0 /\ displayAllExpenses /\ Called("displayAllExpenses")

MainViewBalance == running /\ currentUser # 0 /\ DisplayBalance

MainExport ==
    /\ running /\ currentUser # 0
    /\ \E opened \in BOOLEAN : exportBalanceToCSV(opened)
    /\ Called("exportBalanceToCSV")

MainLogout == running /\ currentUser # 0 /\ Logout

MainExit == running /\ destroy /\ Called("exit")

MainStart == ~running /\ construct /\ Called("ExpenseManager")

NextMain ==
    \/ MainRegister \/ MainLogin \/ MainViewUsers
    \/ MainAddExpense \/ MainViewMyExpenses \/ MainViewAllExpenses \/ MainViewBalance
    \/ MainExport \/ MainLogout
    \/ MainExit \/ MainStart

SpecMain == Init /\ [][NextMain]_vars

(***************************************************************************)
(* Runs of the program one after the other: registration with a password    *)
(* that may be left empty (getline, line 833), login, addExpense with       *)
(* shares that may have more than two decimals, the exit and the next       *)
(* start.                                                                   *)
(***************************************************************************)
RestartPasswords == {"pw", ""}
RestartShares == <<Rat(15001, 250), Rat(9999, 250)>>

RestartRegister ==
    /\ running /\ currentUser = 0
    /\ Len(users) < MaxUsers
    /\ \E password \in RestartPasswords :
            registerUser("name", Email(nextUserId), GoodPhone, password)
    /\ Called("registerUser")

RestartLogin ==
    /\ running /\ currentUser = 0
    /\ \E k \in 1..MaxUsers, password \in RestartPasswords : login(Email(k), password)
    /\ Called("login")

RestartAddExpense ==
    /\ running /\ currentUser # 0
    /\ nextExpenseId <= MaxNextExpenseId
    /\ \E method \in Methods, participantIds \in {<<>>, <<1>>} :
            addExpense("lunch", R(100), method, participantIds, RestartShares)
    /\ Called("addExpense")

NextRestart ==
    RestartRegister \/ RestartLogin \/ RestartAddExpense \/ MainLogout \/ MainExit \/ MainStart

SpecRestart == Init /\ [][NextRestart]_vars

(***************************************************************************)
(* The start of the program on any data files: a users file and an          *)
(* expenses file of up to MaxLoaded lines each, the lines of a file with    *)
(* distinct identities of 1..MaxLoaded + 1 in any order; a users file may   *)
(* hold the line of a user whose password is empty.  Each run is followed   *)
(* through a registration made first, a login and an addExpense made right  *)
(* after the login.                                                         *)
(***************************************************************************)
StoredUser(id, password) ==
    User_serialize(User(id, "name", Email(id), GoodPhone, password))

UserLines ==
    {StoredUser(id, "pw") : id \in 1..MaxLoaded + 1} \cup {StoredUser(MaxLoaded + 1, "")}

ExpenseLines == {StoredExpense(id, 1) : id \in 1..MaxLoaded + 1}

Stores ==
    {[users |-> us, expenses |-> es] :
        us \in {u \in SeqsUpTo(UserLines, MaxLoaded) : DistinctIds(u)},
        es \in {x \in SeqsUpTo(ExpenseLines, MaxLoaded) : DistinctIds(x)}}

InitStores == \E store \in Stores : Construct(store)

StoresRegister ==
    /\ call.op = "ExpenseManager"
    /\ registerUser("name", Email(nextUserId), GoodPhone, "pw")
    /\ Called("registerUser")

StoresLogin ==
    /\ currentUser = 0
    /\ \E k \in 1..Len(users) : login(users[k].email, "pw")
    /\ Called("login")

StoresAddExpense ==
    /\ call.op = "login" /\ currentUser # 0
    /\ addExpense("lunch", R(100), "EQUAL", <<>>, <<>>)
    /\ Called("addExpense")

NextStores == StoresRegister \/ StoresLogin \/ StoresAddExpense

SpecStores == InitStores /\ [][NextStores]_vars

(***************************************************************************)
(* The validation of the participants: a store of MaxUsers users and no     *)
(* expense, addExpense called by a user who has just logged in, with up to  *)
(* MaxSplitParticipants ids, two of which nobody has, up to the first call  *)
(* that reaches the calculation.  This specification records the arguments  *)
(* of the call.                                                             *)
(***************************************************************************)
ValidateShareLists == ShareLists \cup {<<R(20), R(40), R(40)>>}

ValidateAddExpense ==
    /\ currentUser # 0 /\ call.op = "login"
    /\ nextExpenseId = 1
    /\ \E amount \in Amounts, method \in Methods,
          participantIds \in SeqsUpTo(1..MaxUsers + 2, MaxSplitParticipants),
          shares \in ValidateShareLists :
            /\ addExpense("dinner", amount, method, participantIds, shares)
            /\ call' = [op |-> "addExpense",
                        args |-> <<"dinner", amount, method, participantIds, shares>>]

NextValidate == SplitLogin \/ SplitLogout \/ ValidateAddExpense

SpecValidate == InitSplit /\ [][NextValidate]_vars

(***************************************************************************)
(* Properties                                                               *)
(***************************************************************************)
Last(s) == s[Len(s)]

\* A step that is a call of addExpense which stored an expense.
Stored == call'.op = "addExpense" /\ result'.ret

HasParticipant(e, id) == \E i \in 1..Len(e.participants) : e.participants[i].userId = id

\* C1: a call of addExpense that fails, for whatever reason, leaves the
\* ledger exactly as it was.
C1_FailedAddExpenseKeepsLedger ==
    [][(call'.op = "addExpense" /\ ~result'.ret) => expenses' = expenses]_vars

C1_Witness ==
    /\ call.op = "addExpense"
    /\ result.err = "PercentageSumMismatch"
    /\ expenses # <<>>

\* C2: from an empty store, the k-th expense of the ledger has identity k,
\* whatever calls of addExpense succeeded or failed before.
C2_SequentialIds == \A k \in 1..Len(expenses) : expenses[k].id = k

\* C3 as claimed: on a store whose loaded expenses have distinct ids, every
\* identity is positive, no two expenses share one, and identities strictly
\* increase in ledger order.
C3_IdsIncreaseInLedgerOrder ==
    /\ \A k \in 1..Len(expenses) : expenses[k].id > 0
    /\ \A j, k \in 1..Len(expenses) : j < k => expenses[j].id < expenses[k].id

C3_PositiveDistinct ==
    /\ \A k \in 1..Len(expenses) : expenses[k].id > 0
    /\ \A j, k \in 1..Len(expenses) : j # k => expenses[j].id # expenses[k].id

C3_AppendedIsLargest ==
    Stored =>
        /\ Len(expenses') = Len(expenses) + 1
        /\ \A j \in 1..Len(expenses) : expenses[j].id < Last(expenses').id

\* C3, amended: on a store whose loaded expenses have distinct ids, every
\* identity is positive, no two expenses share one, and an expense that
\* addExpense stores has an identity larger than all those before it in the
\* ledger.
C3_UniqueIds == []C3_PositiveDistinct /\ [][C3_AppendedIsLargest]_vars

C3_Witness ==
    /\ call.op = "addExpense" /\ result.ret
    /\ Len(expenses) = 3
    /\ expenses[1].id > expenses[2].id

\* C4: every expense in a ledger built by addExpense has its creator among
\* its participants; a creator the caller left out is the last participant.
C4_CreatorIsParticipant ==
    \A k \in 1..Len(expenses) : HasParticipant(expenses[k], expenses[k].createdBy)

C4_Witness ==
    \E k \in 1..Len(expenses) :
        /\ Len(expenses[k].participants) = 2
        /\ expenses[k].participants[1].userId # expenses[k].createdBy
        /\ expenses[k].participants[2].userId = expenses[k].createdBy


(***************************************************************************)
(* Properties of the split calculation (SpecSplit)                          *)
(***************************************************************************)
Hundredth == Rat(1, 100)

Shares(e) == [i \in 1..Len(e.participants) |-> e.participants[i].share]
Ids(e) == [i \in 1..Len(e.participants) |-> e.participants[i].userId]

\* |sum of the shares of e - amount of e|
ShareGap(e) == RAbs(RSub(RSum(Shares(e)), e.amount))

\* The state right after a call addExpense(_, amount, method, ids, weights).
AfterAddExpense(method) == call.op = "addExpense" /\ call.args # <<>> /\ call.args[3] = method
ArgAmount == call.args[2]
ArgIds == call.args[4]
ArgWeights == call.args[5]
Contains(s, x) == \E i \in 1..Len(s) : s[i] = x

\* The participant list the claims count: the ids given, then the creator
\* when the ids do not hold it.
Counted == IF Contains(ArgIds, currentUserId) THEN ArgIds ELSE ArgIds \o <<currentUserId>>

\* C5 as claimed: the shares of every stored EXACT or PERCENTAGE expense sum
\* to its amount within 0.01.
C5_SharesSumToAmount ==
    \A k \in 1..Len(expenses) :
        expenses[k].splitMethod \in {"EXACT", "PERCENTAGE"} =>
            RLe(ShareGap(expenses[k]), Hundredth)

\* C5, amended: the shares of a stored EXACT expense sum to its amount within
\* 0.01; those of a stored PERCENTAGE expense sum to it within 0.01 percent
\* of the amount (within 0.01 only for an amount of at most 100).
C5_SharesSumWithinCheckedTolerance ==
    \A k \in 1..Len(expenses) :
        /\ expenses[k].splitMethod = "EXACT" => RLe(ShareGap(expenses[k]), Hundredth)
        /\ expenses[k].splitMethod = "PERCENTAGE" =>
                RLe(RMul(ShareGap(expenses[k]), R(100)), RMul(expenses[k].amount, Hundredth))

C5_Witness ==
    \E k \in 1..Len(expenses) :
        /\ expenses[k].splitMethod = "PERCENTAGE"
        /\ expenses[k].amount = R(1000)
        /\ RLt(Hundredth, ShareGap(expenses[k]))

\* C6: a successful EQUAL call with amount A stores one share per counted
\* participant (duplicates each counted, the creator appended when absent),
\* in list order, each equal to A / N.
C6_EqualShares ==
    (AfterAddExpense("EQUAL") /\ result.ret) =>
        LET e == Last(expenses)
            N == Len(Counted)
        IN  /\ Len(e.participants) = N
            /\ Ids(e) = Counted
            /\ \A i \in 1..N : RMul(e.participants[i].share, R(N)) = ArgAmount

C6_Witness ==
    /\ AfterAddExpense("EQUAL") /\ result.ret
    /\ ArgIds = <<2, 2>>
    /\ Ids(Last(expenses)) = <<2, 2, 1>>
    /\ Last(expenses).participants[3].share = Rat(100, 3)

\* C7: an EXACT call with as many weights as counted participants fails with
\* the share-sum error iff |sum(weights) - amount| > 0.01, and otherwise
\* stores the i-th weight as the i-th share.
C7_ExactShares ==
    (AfterAddExpense("EXACT") /\ Len(ArgWeights) = Len(Counted)) =>
        LET off == RLt(Hundredth, RAbs(RSub(RSum(ArgWeights), ArgAmount)))
        IN  /\ (~result.ret /\ result.err = "ShareSumMismatch") <=> off
            /\ ~off => /\ result.ret
                       /\ Ids(Last(expenses)) = Counted
                       /\ Shares(Last(expenses)) = ArgWeights

C7_Witness ==
    /\ AfterAddExpense("EXACT") /\ result.ret
    /\ ArgWeights = <<R(60), Rat(4001, 100)>>
    /\ Shares(Last(expenses)) = <<R(60), Rat(4001, 100)>>

\* C8: a PERCENTAGE call with as many weights as counted participants fails
\* with the percentage-sum error iff |sum(weights) - 100| > 0.01, and
\* otherwise stores amount * (weight_i / 100) as the i-th share.
C8_PercentageShares ==
    (AfterAddExpense("PERCENTAGE") /\ Len(ArgWeights) = Len(Counted)) =>
        LET off == RLt(Hundredth, RAbs(RSub(RSum(ArgWeights), R(100))))
        IN  /\ (~result.ret /\ result.err = "PercentageSumMismatch") <=> off
            /\ ~off => /\ result.ret
                       /\ Ids(Last(expenses)) = Counted
                       /\ \A i \in 1..Len(ArgWeights) :
                            RMul(Last(expenses).participants[i].share, R(100))
                                = RMul(ArgAmount, ArgWeights[i])

C8_Witness ==
    /\ AfterAddExpense("PERCENTAGE") /\ result.ret
    /\ ArgAmount = R(1000)
    /\ ArgWeights = <<R(20), R(40), R(40)>>
    /\ Shares(Last(expenses)) = <<R(200), R(400), R(400)>>


(***************************************************************************)
(* Properties of the balance (SpecBalance)                                  *)
(***************************************************************************)
\* The entry of a balance map, a missing one counting as 0.
Entry(m, id) == IF id \in DOMAIN m THEN m[id] ELSE Zero

\* The state right after displayBalance computed the map of the logged-in user.
Displayed == call.op = "displayBalance" /\ result.ret

RegisteredIds == {users[i].id : i \in 1..Len(users)}

\* The sum of the shares of `who` in the first n participants of e.
RECURSIVE SharesOf(_, _, _)
SharesOf(e, who, n) ==
    IF n = 0 THEN Zero
    ELSE RAdd(SharesOf(e, who, n - 1),
              IF e.participants[n].userId = who THEN e.participants[n].share ELSE Zero)

\* The sum of the shares of `who` over the first n expenses, those paid by
\* `payer` only.
RECURSIVE Owed(_, _, _)
Owed(payer, who, n) ==
    IF n = 0 THEN Zero
    ELSE RAdd(Owed(payer, who, n - 1),
              IF expenses[n].createdBy = payer
              THEN SharesOf(expenses[n], who, Len(expenses[n].participants))
              ELSE Zero)

\* C9: the entry for Y in the balance of X is the negation of the entry for
\* X in the balance of Y, for any two distinct users (a missing entry is 0).
C9_BalanceSymmetry ==
    Displayed =>
        \A Y \in RegisteredIds \ {currentUserId} :
            Entry(balance, Y)
                = RNeg(Entry(computeBalance(expenses, Y, Len(expenses)), currentUserId))

C9_Witness ==
    /\ Displayed
    /\ Len(expenses) = 2
    /\ expenses[1].createdBy = 3 /\ Ids(expenses[1]) = <<2, 2>>
    /\ expenses[2].createdBy = 2 /\ Ids(expenses[2]) = <<1, 3>>
    /\ currentUserId = 2
    /\ balance = (1 :> R(10) @@ 3 :> R(-10))

\* C10: the map shown to focal user F is a function of the ledger and F: F
\* has no entry of its own, and the entry of every other C is the sum of
\* C's shares in the expenses F paid minus the sum of F's shares in the
\* expenses C paid.
C10_BalanceIsNetOfShares ==
    Displayed =>
        /\ currentUserId \notin DOMAIN balance
        /\ \A C \in (RegisteredIds \cup DOMAIN balance) \ {currentUserId} :
            Entry(balance, C)
                = RSub(Owed(currentUserId, C, Len(expenses)),
                       Owed(C, currentUserId, Len(expenses)))

C10_Witness ==
    /\ Displayed
    /\ Len(expenses) = 2
    /\ expenses[1].createdBy = 1 /\ Ids(expenses[1]) = <<1, 2>>
    /\ expenses[2].createdBy = 3 /\ Ids(expenses[2]) = <<3, 1>>
    /\ currentUserId = 1
    /\ balance = (2 :> R(25) @@ 3 :> R(-25))

(***************************************************************************)
(* Properties of registration (SpecRegister)                                *)
(***************************************************************************)
\* The step is a call registerUser(_, email, _, _).
RegisterStep == call'.op = "registerUser" /\ call'.args # <<>>
ArgEmail == call.args[2]

C11_DistinctEmails ==
    \A i, j \in 1..Len(users) : i # j => users[i].email # users[j].email

C11_DuplicateFails ==
    (RegisterStep /\ \E i \in 1..Len(users) : users[i].email = ArgEmail') =>
        (~result'.ret /\ users' = users)

\* C11: registerUser with the exact email of a registered user fails and
\* adds no user, and from an empty registry no two registered users ever
\* have the same email.
C11_DuplicateEmailRejected == []C11_DistinctEmails /\ [][C11_DuplicateFails]_vars

C11_Witness ==
    /\ call.op = "registerUser" /\ call.args # <<>>
    /\ result.err = "DuplicateEmail"
    /\ Len(users) = 1 /\ users[1].email = ArgEmail

C12_SequentialUserIds ==
    /\ \A k \in 1..Len(users) : users[k].id = k
    /\ nextUserId = Len(users) + 1

C12_FailureConsumesNothing ==
    (RegisterStep /\ ~result'.ret) => (users' = users /\ nextUserId' = nextUserId)

\* C12: from an empty registry the k-th registered user has identity k, and
\* a registration that fails (invalid email, invalid phone, duplicate email)
\* leaves the registry and the next identity as they were.
C12_UserIdsSequential == []C12_SequentialUserIds /\ [][C12_FailureConsumesNothing]_vars

C12_Witness ==
    /\ call.op = "registerUser" /\ call.args # <<>> /\ result.ret
    /\ Len(users) = 2 /\ users[2].id = 2
    /\ users[1].email = Email(1) /\ users[2].email = UpperEmail(1)

(***************************************************************************)
(* Properties of the program (SpecMain)                                     *)
(***************************************************************************)
\* The step is a start of the program, not an operation of a session.
StartStep == call'.op = "ExpenseManager"

C13_LedgerStep ==
    ~StartStep =>
        \/ expenses' = expenses
        \/ /\ call'.op = "addExpense" /\ result'.ret
           /\ Len(expenses') = Len(expenses) + 1
           /\ SubSeq(expenses', 1, Len(expenses)) = expenses

\* C13: within a session every operation leaves the stored expenses as they
\* are and where they are; the only change to the ledger is one expense
\* appended at its end by a successful addExpense.
C13_AppendOnly == [][C13_LedgerStep]_vars

C13_Witness ==
    /\ call.op = "exportBalanceToCSV" /\ result.ret
    /\ Len(expenses) = 2
    /\ Len(result.info) > 0

C18_PointerValid == currentUser \in 0..Len(users)

C18_SessionStep ==
    /\ call'.op = "registerUser" => currentUser = 0
    /\ (call'.op = "login" /\ result'.ret) => currentUser' \in 1..Len(users')
    /\ call'.op = "logout" => currentUser' = 0
    /\ (currentUser # 0 /\ call'.op # "logout" /\ ~StartStep) =>
            /\ currentUser' = currentUser
            /\ users' = users
    /\ Stored => Last(expenses').createdBy = users[currentUser].id
    /\ (call'.op = "displayBalance" /\ result'.ret) =>
            balance' = computeBalance(expenses, users[currentUser].id, Len(expenses))

\* C18: in the loop of main() registerUser is called only while currentUser
\* is null; a non-null currentUser points at a user of the registry, the one
\* who logged in, and stays so, with the registry as it is, until logout (or
\* the exit); addExpense and displayBalance act for that user.
C18_SessionSafety == []C18_PointerValid /\ [][C18_SessionStep]_vars

C18_Witness ==
    /\ call.op = "addExpense" /\ result.ret
    /\ Len(users) = 2 /\ currentUser = 2
    /\ Last(expenses).createdBy = 2

(***************************************************************************)
(* Properties of a restart (SpecRestart)                                    *)
(***************************************************************************)
C14_StartStep == StartStep => (users' = users /\ expenses' = expenses)

\* C14: the exit of the program (saveData) followed by its next start
\* (loadData in a new manager) gives back the same users and the same
\* expenses in the same order, every field and every (participant id, share)
\* pair equal.
C14_RestartKeepsState == [][C14_StartStep]_vars

(***************************************************************************)
(* Properties of the start of the program (SpecStores)                      *)
(***************************************************************************)
\* The largest identity of a list of users or expenses, 0 for an empty list.
MaxId(list) ==
    IF list = <<>> THEN 0
    ELSE CHOOSE n \in {list[k].id : k \in 1..Len(list)} :
            \A k \in 1..Len(list) : list[k].id <= n

\* The state right after ExpenseManager() ran loadData.
Loaded == call.op = "ExpenseManager"

\* C15: right after loadData the next user identity is the largest loaded
\* user identity plus 1 and the next expense identity the largest loaded
\* expense identity plus 1 (1 for a store with no line), each whatever the
\* other store holds and whatever the order of the lines.
C15_NextIdsAfterLoad ==
    Loaded => /\ nextUserId = MaxId(users) + 1
              /\ nextExpenseId = MaxId(expenses) + 1

C15_Witness ==
    /\ Loaded
    /\ Len(users) = 2 /\ users[1].id = 3 /\ users[2].id = 1 /\ nextUserId = 4
    /\ expenses = <<>> /\ nextExpenseId = 1

(***************************************************************************)
(* Properties of the validation of the participants (SpecValidate)          *)
(***************************************************************************)
\* The positions of Counted that hold an id no registered user has.
Unknown == {i \in 1..Len(Counted) : Counted[i] \notin RegisteredIds}

C17_ShareCountAfterAppend ==
    (AfterAddExpense("EXACT") \/ AfterAddExpense("PERCENTAGE")) =>
        LET n == Len(ArgIds)
            absent == ~Contains(ArgIds, currentUserId)
            required == IF absent THEN n + 1 ELSE n
            e == Last(expenses)
        IN  /\ result.err = "ShareCountMismatch" <=> Len(ArgWeights) # required
            /\ result.ret =>
                /\ Ids(e) = IF absent THEN Append(ArgIds, currentUserId) ELSE ArgIds
                /\ absent =>
                    IF e.splitMethod = "EXACT"
                    THEN e.participants[n + 1].share = ArgWeights[n + 1]
                    ELSE RMul(e.participants[n + 1].share, R(100))
                            = RMul(ArgAmount, ArgWeights[n + 1])

C17_Witness ==
    /\ AfterAddExpense("EXACT") /\ result.ret
    /\ currentUserId = 1 /\ ArgIds = <<2>> /\ ArgWeights = <<R(40), R(60)>>
    /\ Ids(Last(expenses)) = <<2, 1>>
    /\ Shares(Last(expenses)) = <<R(40), R(60)>>

====
